---- MODULE Spec2Model ----
(***************************************************************************)
(* d2q9-bgk.c: the D2Q9-BGK lattice-Boltzmann kernel.                      *)
(*                                                                         *)
(* The state is the state of main(): the parameters, the obstacle mask,    *)
(* the two grids (nine per-direction buffers each), the pointer that says  *)
(* which of the two is `cells`, the av_vels array and the loop counter.    *)
(* One iteration of the loop is accelerate_flow (sequential, one step),    *)
(* the stream/collide loop nest with the division that timestep returns,   *)
(* and main's store and swap.  In Spec the loop nest is run by one thread  *)
(* in one step; in ParSpec its rows are taken one step each by any worker  *)
(* in any order, each worker accumulating its private copy of the          *)
(* reduction variables, which a last step combines.                        *)
(* EdgeSpec is Spec on the grids of one or two rows and columns; with one  *)
(* row accelerate_flow reads and writes in front of the buffers, and what  *)
(* such a read returns is drawn in Init (wild).                            *)
(*                                                                         *)
(* A float is modelled as a fixed-point number: an integer count of        *)
(* 1/Scale units.  + and - are exact; * and / round to the nearest unit.   *)
(* The result of a division by zero, and everything computed from it, is   *)
(* the one absorbing value NaN.  Memory that malloc returned and nobody    *)
(* wrote holds an arbitrary value, drawn in Init.                          *)
(***************************************************************************)
EXTENDS Integers, Sequences, FiniteSets

\* ------------------------------------------------------------------ bounds

MaxIters == 2
MaxObstacles == 1
NumWorkers == 2

\* ------------------------------------------------------------- arithmetic

NSPEEDS == 9

Scale == 36 * 100

NaN == 0 - (Scale * Scale * 100)

IsNaN(x) == x = NaN

F(n) == n * Scale

\* n / d rounded to the nearest integer (d # 0)
Round(n, d) ==
    IF d > 0 THEN (2 * n + d) \div (2 * d)
    ELSE (2 * (0 - n) + (0 - d)) \div (2 * (0 - d))

AddF(a, b) == IF IsNaN(a) \/ IsNaN(b) THEN NaN ELSE a + b

SubF(a, b) == IF IsNaN(a) \/ IsNaN(b) THEN NaN ELSE a - b

MulF(a, b) == IF IsNaN(a) \/ IsNaN(b) THEN NaN ELSE Round(a * b, Scale)

DivF(a, b) ==
    IF IsNaN(a) \/ IsNaN(b) \/ b = 0 THEN NaN ELSE Round(a * Scale, b)

NegF(a) == IF IsNaN(a) THEN NaN ELSE 0 - a

\* x > 0.f : false for a NaN
GtZero(x) == ~IsNaN(x) /\ x > 0

RECURSIVE IsqrtIter(_, _, _)
IsqrtIter(n, lo, hi) ==
    IF lo >= hi THEN lo
    ELSE LET mid == (lo + hi + 1) \div 2
         IN  IF mid * mid <= n THEN IsqrtIter(n, mid, hi)
             ELSE IsqrtIter(n, lo, mid - 1)

sqrtf(x) ==
    IF IsNaN(x) \/ x < 0 THEN NaN ELSE IsqrtIter(x * Scale, 0, 40000)

\* ------------------------------------------------------------------ inputs

Dirs == 0 .. (NSPEEDS - 1)

\* the grid sizes of the parameter files tried
NXs == {4}
NYs == {3}

\* << density, accel, omega >> of the parameter files tried
ParamSets ==
    { << F(1), 0, F(1) >>,
      << F(1), 0, (17 * Scale) \div 10 >>,
      << F(1), Scale \div 2, F(1) >>,
      << F(1), Scale \div 2, (17 * Scale) \div 10 >>,
      << F(1), F(1), F(1) >>,
      << 0, Scale \div 2, (17 * Scale) \div 10 >> }

\* what uninitialised memory may hold
JunkVals == {0, 7}

\* the grid sizes and << density, accel, omega >> of the smallest runs
EdgeNXs == {1, 2}

EdgeNYs == {1, 2}

EdgeParamSets ==
    { << F(1), 0, F(1) >>,
      << F(1), Scale \div 2, (17 * Scale) \div 10 >> }

\* what memory in front of a buffer may hold
WildVals == {0, F(1)}

Workers == 1 .. NumWorkers

Masks(n) ==
    { m \in [0 .. (n - 1) -> {0, 1}] :
        LET blocked == { i \in 0 .. (n - 1) : m[i] = 1 }
        IN  Cardinality(blocked) <= MaxObstacles \/ Cardinality(blocked) = n }

VARIABLES
    wild,        \* what a read in front of a buffer returns: obst for an
                 \* int of obstacles, val for a float of a grid
    params,      \* t_param: nx, ny, maxIters, density, accel, omega
    obstacles,   \* int *obstacles
    grid,        \* the two t_speeds allocations: grid[b][d][index]
    cur,         \* which allocation main's `cells` points to
    nxt,         \* which allocation main's `tmp_cells` points to
    lastNext,    \* the allocation the last pass wrote (-1: none yet)
    outCells,    \* the allocation main gave to calc_reynolds and
                 \* write_values (-1: not yet)
    av_vels,     \* float *av_vels
    avWrites,    \* how many times each av_vels entry was assigned
    tt,          \* main's loop counter
    pc,          \* where main is
    rowOwner,    \* per row of the parallel loop: 0, or the worker that ran it
    part_cells,  \* each worker's private tot_cells
    part_u,      \* each worker's private tot_u
    tot_cells,   \* timestep's tot_cells
    tot_u,       \* timestep's tot_u
    ret,         \* the value timestep returned
    retlog,      \* the values timestep returned, in order
    props,       \* per cell, the prop0..prop8 read in this pass
    accd,        \* the cells accelerate_flow updated in this iteration
    rd,          \* grid floats read in this iteration:
                 \*   << stage, thread, allocation, speed, index >>
    wr           \* grid floats written in this iteration

vars == << wild, params, obstacles, grid, cur, nxt, lastNext, outCells,
           av_vels, avWrites, tt, pc, rowOwner,
           part_cells, part_u, tot_cells, tot_u, ret, retlog, props, accd,
           rd, wr >>

NCells == params.nx * params.ny

Cells == 0 .. (NCells - 1)

Rows == 0 .. (params.ny - 1)

Cols == 0 .. (params.nx - 1)

cells == grid[cur]

\* tmp_cells pointing to the allocation of cells
TmpAlloc_Alias == cur

\* which allocation main's `tmp_cells` points to
TmpAlloc == nxt

tmp_cells == grid[TmpAlloc]

\* the index without the row offset
Idx_NoRow(ii, jj) == ii

Idx(ii, jj) == ii + jj * params.nx

RowOf(i) == i \div params.nx

ColOf(i) == i % params.nx

\* -------------------------------------------------------------- initialise

InitW0(density) == DivF(MulF(density, F(4)), F(9))

InitW1(density) == DivF(density, F(9))

InitW2(density) == DivF(density, F(36))

InitSpeed(density, d) ==
    IF d = 0 THEN InitW0(density)
    ELSE IF d <= 4 THEN InitW1(density)
    ELSE InitW2(density)

\* the state initialise leaves, for parameter files with nx of nxs, ny of
\* nys and << density, accel, omega >> of pss
InitFor(nxs, nys, pss) ==
    /\ \E nx \in nxs, ny \in nys, mi \in 0 .. MaxIters, ps \in pss :
          params = [nx |-> nx, ny |-> ny, maxIters |-> mi, density |-> ps[1],
                    accel |-> ps[2], omega |-> ps[3]]
    /\ obstacles \in Masks(params.nx * params.ny)
    /\ \E junk \in JunkVals :
          /\ grid = [b \in {0, 1} |-> [d \in Dirs |-> [i \in 0 .. (params.nx * params.ny - 1) |->
                        IF b = 0 THEN InitSpeed(params.density, d) ELSE junk]]]
          /\ av_vels = [k \in 0 .. (params.maxIters - 1) |-> junk]
    /\ cur = 0
    /\ nxt = 1
    /\ lastNext = 0 - 1
    /\ outCells = 0 - 1
    /\ avWrites = [k \in 0 .. (params.maxIters - 1) |-> 0]
    /\ tt = 0
    /\ pc = "loop"
    /\ rowOwner = [jj \in 0 .. (params.ny - 1) |-> 0]
    /\ part_cells = [w \in Workers |-> 0]
    /\ part_u = [w \in Workers |-> 0]
    /\ tot_cells = 0
    /\ tot_u = 0
    /\ ret = 0
    /\ retlog = << >>
    /\ props = [i \in 0 .. (params.nx * params.ny - 1) |-> << >>]
    /\ accd = {}
    /\ rd = {}
    /\ wr = {}
    /\ wild \in IF params.ny >= 2 THEN {[obst |-> 0, val |-> 0]}
                ELSE [obst : {0, 1}, val : WildVals]

Init == InitFor(NXs, NYs, ParamSets)

\* ---------------------------------------------------------- accelerate_flow

\* obstacles[i], also for an i in front of the array
ObstacleAt(i) == IF i \in Cells THEN obstacles[i] ELSE wild.obst

\* g->s<d>[i], also for an i in front of the buffer
SpeedAt(g, d, i) == IF i \in Cells THEN g[d][i] ELSE wild.val

AccW1 == DivF(MulF(params.density, params.accel), F(9))

AccW2 == DivF(MulF(params.density, params.accel), F(36))

AccelRow == params.ny - 2

\* the condition of the if: the cell is not occupied and the three
\* west-side densities stay above zero
AccelGuard(g, i) ==
    /\ ObstacleAt(i) = 0
    /\ GtZero(SubF(SpeedAt(g, 3, i), AccW1))
    /\ GtZero(SubF(SpeedAt(g, 6, i), AccW2))
    /\ GtZero(SubF(SpeedAt(g, 7, i), AccW2))

\* the indices ii + jj * params.nx the loop of accelerate_flow visits
AccelIdx == { ii + AccelRow * params.nx : ii \in Cols }

\* AccelCell without the decrease of the south-west speed
AccelCell_NoSW(g, d, i) ==
    IF d \in {1} THEN AddF(g[d][i], AccW1)
    ELSE IF d \in {5, 8} THEN AddF(g[d][i], AccW2)
    ELSE IF d \in {3} THEN SubF(g[d][i], AccW1)
    ELSE IF d \in {6} THEN SubF(g[d][i], AccW2)
    ELSE g[d][i]

AccelCell(g, d, i) ==
    IF d \in {1} THEN AddF(g[d][i], AccW1)
    ELSE IF d \in {5, 8} THEN AddF(g[d][i], AccW2)
    ELSE IF d \in {3} THEN SubF(g[d][i], AccW1)
    ELSE IF d \in {6, 7} THEN SubF(g[d][i], AccW2)
    ELSE g[d][i]

\* the grid after the loop (a write in front of a buffer changes no float
\* of the grid)
accelerate_flow(g) ==
    [d \in Dirs |-> [i \in Cells |->
        IF i \in AccelIdx /\ AccelGuard(g, i)
        THEN AccelCell(g, d, i) ELSE g[d][i]]]

\* the buffers the condition reads, left to right with && short-circuit
AccelGuardReads(g, i) ==
    IF ObstacleAt(i) # 0 THEN {}
    ELSE IF ~GtZero(SubF(SpeedAt(g, 3, i), AccW1)) THEN {3}
    ELSE IF ~GtZero(SubF(SpeedAt(g, 6, i), AccW2)) THEN {3, 6}
    ELSE {3, 6, 7}

AccelReads(g) ==
    { a \in {"accel"} \X {0} \X {cur} \X Dirs \X AccelIdx :
        \/ a[4] \in AccelGuardReads(g, a[5])
        \/ AccelGuard(g, a[5]) /\ a[4] \in {1, 5, 8, 3, 6, 7} }

AccelWrites(g) ==
    { a \in {"accel"} \X {0} \X {cur} \X {1, 5, 8, 3, 6, 7} \X AccelIdx :
        AccelGuard(g, a[5]) }

\* ------------------------------------------------- timestep: stream/collide

y_s(jj) == IF jj = 0 THEN jj + params.ny - 1 ELSE jj - 1

y_n(jj) == (jj + 1) % params.ny

x_e(ii) == (ii + 1) % params.nx

\* x_w with the neighbour on the wrong side
x_w_East(ii) == (ii + 1) % params.nx

x_w(ii) == IF ii = 0 THEN ii + params.nx - 1 ELSE ii - 1

\* the index prop<d> is read from, for the cell (ii, jj)
SrcIdx(d, ii, jj) ==
    CASE d = 0 -> ii + jj * params.nx
      [] d = 1 -> x_w(ii) + jj * params.nx
      [] d = 2 -> ii + y_s(jj) * params.nx
      [] d = 3 -> x_e(ii) + jj * params.nx
      [] d = 4 -> ii + y_n(jj) * params.nx
      [] d = 5 -> x_w(ii) + y_s(jj) * params.nx
      [] d = 6 -> x_e(ii) + y_s(jj) * params.nx
      [] d = 7 -> x_e(ii) + y_n(jj) * params.nx
      [] d = 8 -> x_w(ii) + y_n(jj) * params.nx

\* << prop0, ..., prop8 >> of the cell (ii, jj)
propagate(g, ii, jj) ==
    << g[0][SrcIdx(0, ii, jj)], g[1][SrcIdx(1, ii, jj)],
       g[2][SrcIdx(2, ii, jj)], g[3][SrcIdx(3, ii, jj)],
       g[4][SrcIdx(4, ii, jj)], g[5][SrcIdx(5, ii, jj)],
       g[6][SrcIdx(6, ii, jj)], g[7][SrcIdx(7, ii, jj)],
       g[8][SrcIdx(8, ii, jj)] >>

\* prop<d> of such a tuple
P(p, d) == p[d + 1]

\* at an obstacle, speed d of the next grid receives prop<ReboundSrc(d)>
ReboundSrc(d) ==
    CASE d = 1 -> 3
      [] d = 2 -> 4
      [] d = 3 -> 1
      [] d = 4 -> 2
      [] d = 5 -> 7
      [] d = 6 -> 8
      [] d = 7 -> 5
      [] d = 8 -> 6

\* the speeds the obstacle branch assigns
ReboundDirs == 1 .. 8

Sum3(a, b, e) == AddF(AddF(a, b), e)

local_density(p) ==
    AddF(AddF(AddF(AddF(AddF(AddF(AddF(AddF(P(p, 0), P(p, 1)), P(p, 2)),
        P(p, 3)), P(p, 4)), P(p, 5)), P(p, 6)), P(p, 7)), P(p, 8))

u_x(p, ld) == DivF(SubF(Sum3(P(p, 1), P(p, 5), P(p, 8)),
                        Sum3(P(p, 3), P(p, 6), P(p, 7))), ld)

u_y(p, ld) == DivF(SubF(Sum3(P(p, 2), P(p, 5), P(p, 6)),
                        Sum3(P(p, 4), P(p, 7), P(p, 8))), ld)

u_sq(ux, uy) == AddF(MulF(ux, ux), MulF(uy, uy))

\* u_sq of the cell whose streamed values are p
CellUsq(p) ==
    LET ld == local_density(p)
    IN  u_sq(u_x(p, ld), u_y(p, ld))

c == F(3)

w0 == DivF(F(4), F(9))

w1 == DivF(F(1), F(9))

w2 == DivF(F(1), F(36))

Half == Scale \div 2

OneAndHalf == (3 * Scale) \div 2

\* u[1] .. u[8] from u_x and u_y
udir(ux, uy, d) ==
    CASE d = 1 -> ux
      [] d = 2 -> uy
      [] d = 3 -> NegF(ux)
      [] d = 4 -> NegF(uy)
      [] d = 5 -> AddF(ux, uy)
      [] d = 6 -> AddF(NegF(ux), uy)
      [] d = 7 -> SubF(NegF(ux), uy)
      [] d = 8 -> SubF(ux, uy)

weight(d) == IF d = 0 THEN w0 ELSE IF d <= 4 THEN w1 ELSE w2

\* d_equ[d] from local_density, u_x, u_y and u_sq
d_equ(ld, ux, uy, usq, d) ==
    IF d = 0
    THEN MulF(MulF(w0, ld), SubF(F(1), MulF(usq, MulF(Half, c))))
    ELSE LET u == udir(ux, uy, d)
         IN  MulF(MulF(weight(d), ld),
                  SubF(AddF(AddF(F(1), MulF(u, c)),
                            MulF(MulF(u, u), MulF(OneAndHalf, c))),
                       MulF(usq, MulF(Half, c))))

\* relax that starts from the equilibrium value instead of the streamed one
relax_FromEqu(pd, de) == AddF(de, MulF(params.omega, SubF(de, pd)))

\* the relaxation step of one speed
relax(pd, de) == AddF(pd, MulF(params.omega, SubF(de, pd)))

\* the nine values the collision branch assigns, speed d at index d + 1
collision(p) ==
    LET ld == local_density(p)
        ux == u_x(p, ld)
        uy == u_y(p, ld)
        usq == u_sq(ux, uy)
    IN  << relax(P(p, 0), d_equ(ld, ux, uy, usq, 0)),
           relax(P(p, 1), d_equ(ld, ux, uy, usq, 1)),
           relax(P(p, 2), d_equ(ld, ux, uy, usq, 2)),
           relax(P(p, 3), d_equ(ld, ux, uy, usq, 3)),
           relax(P(p, 4), d_equ(ld, ux, uy, usq, 4)),
           relax(P(p, 5), d_equ(ld, ux, uy, usq, 5)),
           relax(P(p, 6), d_equ(ld, ux, uy, usq, 6)),
           relax(P(p, 7), d_equ(ld, ux, uy, usq, 7)),
           relax(P(p, 8), d_equ(ld, ux, uy, usq, 8)) >>

\* the next grid t with the speeds ds of cell i assigned from the tuple v
Store(t, i, ds, v) ==
    [d \in Dirs |-> IF d \in ds THEN [t[d] EXCEPT ![i] = P(v, d)] ELSE t[d]]

\* the values the obstacle branch assigns, speed d at index d + 1
\* (index 1 is not assigned by the branch)
rebound(p) ==
    << P(p, 0), P(p, ReboundSrc(1)), P(p, ReboundSrc(2)), P(p, ReboundSrc(3)),
       P(p, ReboundSrc(4)), P(p, ReboundSrc(5)), P(p, ReboundSrc(6)),
       P(p, ReboundSrc(7)), P(p, ReboundSrc(8)) >>

\* the speeds of the next grid that the cell's branch assigns
CellWrites(i) == IF obstacles[i] # 0 THEN ReboundDirs ELSE Dirs

\* CellBody with the two additions of the reduction after the if/else
CellBody_CountsAll(a, g, ii, jj) ==
    LET i == ii + jj * params.nx
        p == propagate(g, ii, jj)
        reb == rebound(p)
        col == collision(p)
        speed == sqrtf(CellUsq(p))
    IN  IF obstacles[jj * params.nx + ii] # 0
        THEN [a EXCEPT !.t = Store(@, i, CellWrites(i), reb),
                       !.n = @ + 1,
                       !.u = AddF(@, speed),
                       !.props[i] = p]
        ELSE [a EXCEPT !.t = Store(@, i, CellWrites(i), col),
                       !.n = @ + 1,
                       !.u = AddF(@, speed),
                       !.props[i] = p]

\* the body of the inner loop for the cell (ii, jj): a holds the next grid
\* (t), the thread's tot_cells (n) and tot_u (u), and the props read so far
CellBody(a, g, ii, jj) ==
    LET i == ii + jj * params.nx
        p == propagate(g, ii, jj)
        reb == rebound(p)
        col == collision(p)
        speed == sqrtf(CellUsq(p))
    IN  IF obstacles[jj * params.nx + ii] # 0
        THEN [a EXCEPT !.t = Store(@, i, CellWrites(i), reb),
                       !.props[i] = p]
        ELSE [a EXCEPT !.t = Store(@, i, CellWrites(i), col),
                       !.n = @ + 1,
                       !.u = AddF(@, speed),
                       !.props[i] = p]

RECURSIVE RowLoop(_, _, _, _)
\* for (ii = ...; ii < params.nx; ii++) of row jj
RowLoop(a, g, jj, ii) ==
    IF ii >= params.nx THEN a
    ELSE RowLoop(CellBody(a, g, ii, jj), g, jj, ii + 1)

RowCells(jj) == { Idx(ii, jj) : ii \in Cols }

RowReads(w, jj) ==
    { << "stream", w, cur, d, SrcIdx(d, ii, jj) >> : d \in Dirs, ii \in Cols }

RowWrites(w, jj) ==
    { a \in {"stream"} \X {w} \X {TmpAlloc} \X Dirs \X RowCells(jj) :
        a[4] \in CellWrites(a[5]) }

RECURSIVE GridLoop(_, _, _)
\* for (jj = ...; jj < params.ny; jj++), run by one thread in program order
GridLoop(a, g, jj) ==
    IF jj >= params.ny THEN a
    ELSE GridLoop(RowLoop(a, g, jj, 0), g, jj + 1)

\* the combination that keeps one private copy only
SumOver_Last(f, ws) == f[CHOOSE x \in ws : \A y \in ws : x >= y]

RECURSIVE SumOver(_, _)
\* the combination of the private copies of a reduction variable
SumOver(f, ws) ==
    IF ws = {} THEN 0
    ELSE LET w == CHOOSE x \in ws : \A y \in ws : x <= y
         IN  AddF(f[w], SumOver(f, ws \ {w}))

\* ------------------------------------------------------------------ actions

\* the loop condition one iteration short
LoopCond_Short == tt < params.maxIters - 1

\* the condition of main's for loop
LoopCond == tt < params.maxIters

\* main: the loop condition holds and timestep is entered; its first
\* statements zero tot_cells and tot_u
LoopEnter ==
    /\ pc = "loop"
    /\ LoopCond
    /\ pc' = "accel"
    /\ tot_cells' = 0
    /\ tot_u' = 0
    /\ part_cells' = [w \in Workers |-> 0]
    /\ part_u' = [w \in Workers |-> 0]
    /\ rowOwner' = [jj \in Rows |-> 0]
    /\ props' = [i \in Cells |-> << >>]
    /\ accd' = {}
    /\ rd' = {}
    /\ wr' = {}
    /\ UNCHANGED << wild, params, obstacles, grid, cur, nxt, lastNext, outCells,
                    av_vels, avWrites, tt, ret, retlog >>

\* main: the loop condition fails; cells is given to calc_reynolds and then
\* to write_values
LoopExit ==
    /\ pc = "loop"
    /\ ~LoopCond
    /\ outCells' = cur
    /\ pc' = "done"
    /\ UNCHANGED << wild, params, obstacles, grid, cur, nxt, lastNext, av_vels,
                    avWrites, tt, rowOwner, part_cells, part_u, tot_cells, tot_u, ret,
                    retlog, props, accd, rd, wr >>

AccelerateFlow ==
    /\ pc = "accel"
    /\ grid' = [grid EXCEPT ![cur] = accelerate_flow(cells)]
    /\ accd' = { i \in AccelIdx : AccelGuard(cells, i) }
    /\ rd' = rd \cup AccelReads(cells)
    /\ wr' = wr \cup AccelWrites(cells)
    /\ pc' = "stream"
    /\ UNCHANGED << wild, params, obstacles, cur, nxt, lastNext, outCells, av_vels,
                    avWrites, tt, rowOwner, part_cells, part_u, tot_cells,
                    tot_u, ret, retlog, props >>

\* the loop nest of timestep run by one thread, and the return statement
StreamCollide ==
    /\ pc = "stream"
    /\ LET a == GridLoop([t |-> tmp_cells, n |-> tot_cells, u |-> tot_u,
                          props |-> props], cells, 0)
       IN  /\ grid' = [grid EXCEPT ![TmpAlloc] = a.t]
           /\ tot_cells' = a.n
           /\ tot_u' = a.u
           /\ props' = a.props
    /\ ret' = DivF(tot_u', F(tot_cells'))
    /\ retlog' = Append(retlog, ret')
    /\ rowOwner' = [jj \in Rows |-> 1]
    /\ rd' = rd \cup UNION { RowReads(1, jj) : jj \in Rows }
    /\ wr' = wr \cup UNION { RowWrites(1, jj) : jj \in Rows }
    /\ lastNext' = TmpAlloc
    /\ pc' = "ret"
    /\ UNCHANGED << wild, params, obstacles, cur, nxt, outCells, av_vels, avWrites,
                    tt, part_cells, part_u, accd >>

\* one row of the omp parallel for, run by worker w
ProcessRow(w, jj) ==
    /\ pc = "stream"
    /\ rowOwner[jj] = 0
    /\ LET a == RowLoop([t |-> tmp_cells, n |-> part_cells[w],
                         u |-> part_u[w], props |-> props], cells, jj, 0)
       IN  /\ grid' = [grid EXCEPT ![TmpAlloc] = a.t]
           /\ part_cells' = [part_cells EXCEPT ![w] = a.n]
           /\ part_u' = [part_u EXCEPT ![w] = a.u]
           /\ props' = a.props
    /\ rowOwner' = [rowOwner EXCEPT ![jj] = w]
    /\ rd' = rd \cup RowReads(w, jj)
    /\ wr' = wr \cup RowWrites(w, jj)
    /\ lastNext' = TmpAlloc
    /\ UNCHANGED << wild, params, obstacles, cur, nxt, outCells, av_vels, avWrites,
                    tt, pc, tot_cells, tot_u, ret, retlog, accd >>

\* the end of the parallel region and timestep's return statement
Reduce ==
    /\ pc = "stream"
    /\ \A jj \in Rows : rowOwner[jj] # 0
    /\ tot_cells' = tot_cells + SumOver(part_cells, Workers)
    /\ tot_u' = AddF(tot_u, SumOver(part_u, Workers))
    /\ ret' = DivF(tot_u', F(tot_cells'))
    /\ retlog' = Append(retlog, ret')
    /\ pc' = "ret"
    /\ UNCHANGED << wild, params, obstacles, grid, cur, nxt, lastNext, outCells,
                    av_vels, avWrites, tt, rowOwner, part_cells, part_u, props,
                    accd, rd, wr >>

\* StoreSwap with `cells = tmp_cells` but without `tmp_cells = tmp`
StoreSwap_NoTmp ==
    /\ pc = "ret"
    /\ av_vels' = [av_vels EXCEPT ![tt] = ret]
    /\ avWrites' = [avWrites EXCEPT ![tt] = @ + 1]
    /\ cur' = nxt
    /\ nxt' = nxt
    /\ tt' = tt + 1
    /\ pc' = "loop"
    /\ UNCHANGED << wild, params, obstacles, grid, lastNext, outCells, rowOwner,
                    part_cells, part_u, tot_cells, tot_u, ret, retlog, props,
                    accd, rd, wr >>

\* main: av_vels[tt] = <returned value>; the pointer swap (tmp = cells;
\* cells = tmp_cells; tmp_cells = tmp); tt++
StoreSwap ==
    /\ pc = "ret"
    /\ av_vels' = [av_vels EXCEPT ![tt] = ret]
    /\ avWrites' = [avWrites EXCEPT ![tt] = @ + 1]
    /\ LET tmp == cur
       IN  /\ cur' = nxt
           /\ nxt' = tmp
    /\ tt' = tt + 1
    /\ pc' = "loop"
    /\ UNCHANGED << wild, params, obstacles, grid, lastNext, outCells, rowOwner,
                    part_cells, part_u, tot_cells, tot_u, ret, retlog, props,
                    accd, rd, wr >>

\* ------------------------------------------------------------ total_density

\* total after the nine additions of the loop body for the cell at index i
TotalBody(total, g, i) ==
    IF IsNaN(total) \/ \E d \in Dirs : IsNaN(g[d][i]) THEN NaN
    ELSE total + g[0][i] + g[1][i] + g[2][i] + g[3][i] + g[4][i] + g[5][i]
               + g[6][i] + g[7][i] + g[8][i]

RECURSIVE TotalUpTo(_, _)
\* total after the loop bodies of the cells at index 0 .. i
TotalUpTo(g, i) ==
    IF i < 0 THEN 0 ELSE TotalBody(TotalUpTo(g, i - 1), g, i)

total_density(g) == TotalUpTo(g, NCells - 1)

\* the grid initialise leaves in *cells_ptr
InitialCells == [d \in Dirs |-> [i \in Cells |-> InitSpeed(params.density, d)]]

\* the program run by one thread
Next ==
    \/ LoopEnter
    \/ LoopExit
    \/ AccelerateFlow
    \/ StreamCollide
    \/ StoreSwap

Spec == Init /\ [][Next]_vars

\* the program run by one thread on the smallest grids
EdgeInit == InitFor(EdgeNXs, EdgeNYs, EdgeParamSets)

EdgeSpec == EdgeInit /\ [][Next]_vars

\* the program with the rows of the parallel loop given to the workers
ParNext ==
    \/ LoopEnter
    \/ LoopExit
    \/ AccelerateFlow
    \/ \E w \in Workers, jj \in Rows : ProcessRow(w, jj)
    \/ Reduce
    \/ StoreSwap

\* << density, accel, omega >> of the parameter files of the parallel runs
ParParamSets ==
    { << F(1), 0, F(1) >>,
      << F(1), Scale \div 2, (17 * Scale) \div 10 >>,
      << 0, Scale \div 2, (17 * Scale) \div 10 >> }

\* the obstacle files of the parallel runs: empty, one cell of the
\* accelerated row, or every cell
ParMasks ==
    { m \in Masks(params.nx * params.ny) :
        \/ \A i \in Cells : m[i] = 0
        \/ \A i \in Cells : m[i] = 1
        \/ \A i \in Cells : m[i] = 1 <=> i = params.nx + 1 }

ParInit ==
    /\ Init
    /\ << params.density, params.accel, params.omega >> \in ParParamSets
    /\ obstacles \in ParMasks

ParSpec == ParInit /\ [][ParNext]_vars

TypeOK == pc \in {"loop", "accel", "stream", "ret", "done"}

\* ------------------------------------------------------------------ claims

OpenCells == { i \in Cells : obstacles[i] = 0 }

BlockedCells == { i \in Cells : obstacles[i] # 0 }

\* main has stored the result of at least one timestep and swapped
AfterSwap == pc \in {"loop", "done"} /\ tt >= 1

\* C1: with accel = 0 (and a density > 0), after every timestep and swap
\* total_density of the current grid, summed over all nine speeds of every
\* cell, obstructed cells included, equals total_density of the grid that
\* initialise built.
C1_MassConserved ==
    (AfterSwap /\ params.accel = 0 /\ params.density > 0)
        => total_density(cells) = total_density(InitialCells)

\* the opposite of each direction; the rest direction is its own opposite
Opposite(d) ==
    CASE d = 0 -> 0
      [] d = 1 -> 3
      [] d = 2 -> 4
      [] d = 3 -> 1
      [] d = 4 -> 2
      [] d = 5 -> 7
      [] d = 6 -> 8
      [] d = 7 -> 5
      [] d = 8 -> 6

\* C2: when the pass of one timestep is over, every obstructed cell of the
\* next grid holds, in each direction d, the value streamed into the cell for
\* the opposite direction (the streamed rest value in the rest direction),
\* and each of its nine entries was written by this pass.
C2_ReboundDefinesAllNine ==
    pc = "ret" =>
        \A i \in BlockedCells : \A d \in Dirs :
            /\ tmp_cells[d][i] = P(props[i], Opposite(d))
            /\ \E a \in wr : a[1] = "stream" /\ a[3] = TmpAlloc
                             /\ a[4] = d /\ a[5] = i

\* the unit offset of each direction
DirX(d) == IF d \in {1, 5, 8} THEN 1 ELSE IF d \in {3, 6, 7} THEN 0 - 1 ELSE 0

DirY(d) == IF d \in {2, 5, 6} THEN 1 ELSE IF d \in {4, 7, 8} THEN 0 - 1 ELSE 0

\* C3: the value streamed into cell (x, y) for direction d is the current
\* grid's direction-d value at ((x - dx_d) mod nx, (y - dy_d) mod ny).
C3_StreamReadsWrappedNeighbour ==
    pc = "ret" =>
        \A i \in Cells : \A d \in Dirs :
            P(props[i], d) =
                cells[d][((ColOf(i) - DirX(d)) % params.nx)
                         + ((RowOf(i) - DirY(d)) % params.ny) * params.nx]

\* a pass is over in which the east value that arrived at a cell of column 0
\* came from column nx-1 and differs from the east value of column 1, and
\* the north value that arrived at row 0 came from row ny-1 and differs from
\* the north value of row 1
C3_Witness ==
    /\ pc = "ret"
    /\ \E i \in Cells :
          /\ ColOf(i) = 0
          /\ P(props[i], 1) = cells[1][Idx(params.nx - 1, RowOf(i))]
          /\ P(props[i], 1) # cells[1][Idx(1, RowOf(i))]
    /\ \E i \in Cells :
          /\ RowOf(i) = 0
          /\ P(props[i], 2) = cells[2][Idx(ColOf(i), params.ny - 1)]
          /\ P(props[i], 2) # cells[2][Idx(ColOf(i), 1)]

\* the six speeds accelerate_flow redistributes
EastSide == {1, 5, 8}

WestSide == {3, 6, 7}

\* the amount the stage moves in speed d
AccAmount(d) == IF d \in {1, 3} THEN AccW1 ELSE AccW2

\* decreasing W, NW and SW of cell i of grid g makes none of them negative
NoneNegative(g, i) ==
    \A d \in WestSide : ~IsNaN(g[d][i]) /\ g[d][i] - AccAmount(d) >= 0

\* C4: accelerate_flow applies the update to every unobstructed cell of row
\* ny-2 whose W, NW and SW stay non-negative under the decrease, the case
\* where one of them becomes exactly 0 included.
C4_AccelWhenNotNegative ==
    [][ pc = "accel" =>
          \A i \in Cells :
              (RowOf(i) = params.ny - 2 /\ obstacles[i] = 0
               /\ NoneNegative(cells, i))
              => /\ \A d \in EastSide :
                        grid'[cur][d][i] = cells[d][i] + AccAmount(d)
                 /\ \A d \in WestSide :
                        grid'[cur][d][i] = cells[d][i] - AccAmount(d) ]_vars

\* the sum of the nine values of cell i of grid g
CellTotal(g, i) ==
    IF \E d \in Dirs : IsNaN(g[d][i]) THEN NaN
    ELSE g[0][i] + g[1][i] + g[2][i] + g[3][i] + g[4][i] + g[5][i] + g[6][i]
         + g[7][i] + g[8][i]

\* C5: accelerate_flow changes a cell in all six of E, NE, SE, W, NW, SW or
\* in none of its values; obstructed cells, cells whose condition fails,
\* cells outside row ny-2 and the rest, N and S values of every cell are
\* unchanged; the sum of the nine values of every cell is unchanged; the
\* other grid is untouched.
C5_AccelFrame ==
    [][ pc = "accel" =>
          /\ \A i \in Cells :
                /\ \/ \A d \in Dirs : grid'[cur][d][i] = cells[d][i]
                   \/ \A d \in EastSide \cup WestSide :
                          grid'[cur][d][i] # cells[d][i]
                /\ (obstacles[i] # 0 \/ RowOf(i) # params.ny - 2
                    \/ ~AccelGuard(cells, i))
                   => \A d \in Dirs : grid'[cur][d][i] = cells[d][i]
                /\ \A d \in {0, 2, 4} : grid'[cur][d][i] = cells[d][i]
                /\ CellTotal(grid'[cur], i) = CellTotal(cells, i)
          /\ grid'[TmpAlloc] = tmp_cells
          /\ cur' = cur ]_vars

\* accelerate_flow has just updated a cell of row ny-2 by a non-zero amount
\* and has skipped an obstructed cell of the same row
C5_Witness ==
    /\ pc = "stream"
    /\ AccW2 # 0
    /\ accd # {}
    /\ \E i \in BlockedCells : RowOf(i) = params.ny - 2

\* the sum of sqrt(u_sq) over the open cells at index 0 .. i
RECURSIVE SpeedSumUpTo(_)
SpeedSumUpTo(i) ==
    IF i < 0 THEN 0
    ELSE IF obstacles[i] # 0 THEN SpeedSumUpTo(i - 1)
    ELSE AddF(SpeedSumUpTo(i - 1), sqrtf(CellUsq(props[i])))

\* C6: when the pass is over, tot_cells is the number of unobstructed cells,
\* tot_u is the sum of sqrt(u_sq) over exactly the unobstructed cells, and
\* the value returned is tot_u / tot_cells.
C6_Reduction ==
    pc = "ret" =>
        /\ tot_cells = Cardinality(OpenCells)
        /\ tot_u = SpeedSumUpTo(NCells - 1)
        /\ ret = DivF(tot_u, F(tot_cells))

\* a pass is over on a grid with an obstacle, with a non-zero speed sum
C6_Witness ==
    /\ pc = "ret"
    /\ BlockedCells # {}
    /\ OpenCells # {}
    /\ ~IsNaN(tot_u)
    /\ tot_u > 0

\* no open cell had a zero (or non-finite) local_density in this pass
NoZeroDensity ==
    \A i \in OpenCells :
        ~IsNaN(local_density(props[i])) /\ local_density(props[i]) # 0

\* C7: in a run with density > 0 in which no cell's local_density is zero,
\* whatever the obstacle mask, the value timestep returns is finite and
\* non-negative, and tot_cells is not 0 when it is computed.
C7_AverageFinite ==
    (pc = "ret" /\ params.density > 0 /\ NoZeroDensity)
        => /\ tot_cells # 0
           /\ ~IsNaN(ret)
           /\ ret >= 0

\* C8: an open cell whose local_density is non-positive stops the run: none
\* of its speeds is written to the next grid by the pass.
C8_NonPositiveDensityFatal ==
    pc = "ret" =>
        \A i \in OpenCells :
            (~IsNaN(local_density(props[i])) /\ local_density(props[i]) <= 0)
            => ~\E a \in wr : a[1] = "stream" /\ a[5] = i

InIteration == pc \in {"accel", "stream", "ret"}

\* C9 as stated: within one iteration the current grid is only read and the
\* next grid is only written, so that no location is both read and written.
C9_CurrentOnlyRead ==
    InIteration =>
        /\ \A a \in rd : a[3] = cur
        /\ \A a \in wr : a[3] # cur
        /\ ~\E a \in rd, b \in wr : a[3] = b[3] /\ a[4] = b[4] /\ a[5] = b[5]

\* C9 as amended: the stream/collide pass only reads the current grid and
\* only writes the next grid, so no location is both read and written in the
\* pass; accelerate_flow, which runs before it in the same iteration, reads
\* and writes the current grid in place, and only the six east- and
\* west-side speeds of unobstructed cells of row ny-2; it does not touch the
\* next grid.
C9_PassReadsCurrentWritesNext ==
    InIteration =>
        /\ \A a \in rd : a[3] = cur
        /\ \A a \in wr :
              IF a[1] = "stream" THEN a[3] # cur
              ELSE /\ a[3] = cur
                   /\ a[4] \in EastSide \cup WestSide
                   /\ RowOf(a[5]) = params.ny - 2
                   /\ obstacles[a[5]] = 0
        /\ ~\E a \in rd, b \in wr :
              /\ a[1] = "stream" /\ b[1] = "stream"
              /\ a[3] = b[3] /\ a[4] = b[4] /\ a[5] = b[5]

\* a pass is over in an iteration whose accelerate_flow wrote the current grid
C9_Witness ==
    /\ pc = "ret"
    /\ \E a \in wr : a[1] = "accel"
    /\ \E a \in wr : a[1] = "stream"
    /\ \E a \in rd : a[1] = "stream"

\* the number of steps main has left: it falls with every step and is 0
\* exactly when the loop has ended
StepsLeft ==
    CASE pc = "loop" -> 4 * (params.maxIters - tt) + 1
      [] pc = "accel" -> 4 * (params.maxIters - tt)
      [] pc = "stream" -> 4 * (params.maxIters - tt) - 1
      [] pc = "ret" -> 4 * (params.maxIters - tt) - 2
      [] pc = "done" -> 0

\* where main stands in the loop, and what it has stored in av_vels so far
C10_Inv ==
    /\ tt <= params.maxIters
    /\ Len(retlog) = (IF pc = "ret" THEN tt + 1 ELSE tt)
    /\ \A k \in 0 .. (params.maxIters - 1) :
          /\ avWrites[k] = (IF k < tt THEN 1 ELSE 0)
          /\ k < tt => av_vels[k] = retlog[k + 1]
    /\ pc = "done" => tt = params.maxIters
    /\ StepsLeft >= 0
    /\ StepsLeft = 0 <=> pc = "done"

\* C10: the loop ends after exactly maxIters timesteps and not before, for
\* every maxIters >= 0: every step of main brings the end nearer, the loop
\* is left only with tt = maxIters, entry k of av_vels is the value the k-th
\* timestep returned, and the entries are written once each, in increasing
\* order of tt.
C10_LoopRunsMaxIters ==
    /\ []C10_Inv
    /\ [][StepsLeft' < StepsLeft]_vars

\* the loop has ended after two timesteps
C10_Witness ==
    /\ pc = "done"
    /\ tt = 2
    /\ Len(retlog) = 2

\* d_equ[d] of the cell whose streamed values are p
CellEqu(p, d) ==
    LET ld == local_density(p)
        ux == u_x(p, ld)
        uy == u_y(p, ld)
    IN  d_equ(ld, ux, uy, u_sq(ux, uy), d)

StageReads == { a \in rd : a[1] = "stream" }

StageWrites == { a \in wr : a[1] = "stream" }

SameLocation(a, b) == a[3] = b[3] /\ a[4] = b[4] /\ a[5] = b[5]

\* no location was written by two workers, and none was both written and read
C12_NoRaceState ==
    /\ \A a \in StageWrites : \A b \in StageWrites :
          SameLocation(a, b) => a[2] = b[2]
    /\ \A a \in StageWrites : \A b \in StageReads : ~SameLocation(a, b)

\* a step of a worker changes no float of the two grids but those it logs
\* as written by that worker in this step
C12_WritesLogged ==
    (pc = "stream" /\ rowOwner' # rowOwner) =>
        \A b \in {0, 1} : \A d \in Dirs : \A i \in Cells :
            grid'[b][d][i] # grid[b][d][i]
            => \E a \in wr' :
                  /\ a[1] = "stream" /\ a[3] = b /\ a[4] = d /\ a[5] = i
                  /\ \E jj \in Rows : rowOwner[jj] = 0 /\ rowOwner'[jj] = a[2]

\* C12: in one stream/collide stage whose rows are given to the workers in
\* any assignment and taken in any order, no location of the next grid is
\* written by two workers and no location written by a worker is read by
\* any worker in that stage: no write/write or read/write race is reachable.
C12_NoRaces ==
    /\ []C12_NoRaceState
    /\ [][C12_WritesLogged]_vars

\* a stage is over in which two workers each ran a row, one row with an
\* obstacle, and one worker read in the current grid the float that another
\* worker wrote in the next grid
C12_Witness ==
    /\ pc = "ret"
    /\ \E j1 \in Rows, j2 \in Rows : rowOwner[j1] = 1 /\ rowOwner[j2] = 2
    /\ \E a \in StageWrites, b \in StageWrites : a[2] # b[2]
    /\ \E a \in StageReads, b \in StageWrites :
          a[2] # b[2] /\ a[4] = b[4] /\ a[5] = b[5]
    /\ BlockedCells # {}

\* the rows the workers have run in this stage
RowsDone == { jj \in Rows : rowOwner[jj] # 0 }

\* the loop nest run by one thread in program order on the current grid,
\* writing over the next grid as it is now
OneThread ==
    GridLoop([t |-> tmp_cells, n |-> 0, u |-> 0, props |-> props], cells, 0)

\* the open cells of the rows a worker has run
WorkerCells(w) == { i \in OpenCells : rowOwner[RowOf(i)] = w }

\* C13: the counter and the sum are accumulated in copies private to the
\* workers, which are combined when the stage ends; whatever the assignment
\* of rows to workers and the order of the rows, every worker's counter is
\* the number of open cells of its rows, the shared counter and sum are
\* untouched during the stage, and at the end the counter, the sum and the
\* next grid are those of the rows run in program order by one thread.
C13_ReductionOrderFree ==
    /\ pc = "stream" =>
          /\ tot_cells = 0 /\ tot_u = 0
          /\ \A w \in Workers : part_cells[w] = Cardinality(WorkerCells(w))
          /\ SumOver(part_cells, Workers)
                = Cardinality({ i \in OpenCells : RowOf(i) \in RowsDone })
    /\ pc = "ret" =>
          /\ tot_cells = Cardinality(OpenCells)
          /\ tot_cells = SumOver(part_cells, Workers)
          /\ tot_u = SumOver(part_u, Workers)
          /\ tot_u = SpeedSumUpTo(NCells - 1)
          /\ ret = DivF(tot_u, F(tot_cells))
          /\ OneThread = [t |-> tmp_cells, n |-> tot_cells, u |-> tot_u,
                          props |-> props]

\* a stage is over in which both workers counted cells and a non-zero speed
C13_Witness ==
    /\ pc = "ret"
    /\ \A w \in {1, 2} : part_cells[w] > 0 /\ ~IsNaN(part_u[w]) /\ part_u[w] > 0
    /\ tot_cells = part_cells[1] + part_cells[2]
    /\ BlockedCells # {}

\* where the two pointers of main stand
C14_Pointers ==
    /\ cur \in {0, 1}
    /\ nxt \in {0, 1}
    /\ cur # nxt
    /\ tt = 0 /\ pc \in {"loop", "accel", "stream", "done"}
          => lastNext = 0 - 1 /\ cur = 0
    /\ tt = 0 /\ pc \in {"loop", "done"} => cells = InitialCells
    /\ tt >= 1 /\ pc \in {"loop", "accel", "stream", "done"} => cur = lastNext
    /\ pc = "ret" => nxt = lastNext
    /\ InIteration => \A a \in rd : a[3] = cur
    /\ outCells # 0 - 1 <=> pc = "done"
    /\ pc = "done" =>
          /\ outCells = cur
          /\ params.maxIters = 0 => grid[outCells] = InitialCells
          /\ params.maxIters > 0 => outCells = lastNext

\* the pointers change only in main's swap, which comes when the pass of
\* the timestep is over and exchanges them without touching a float; the
\* grid handed over is not changed before the next timestep starts
C14_SwapStep ==
    /\ (cur' # cur \/ nxt' # nxt) =>
          /\ pc = "ret"
          /\ \A jj \in Rows : rowOwner[jj] # 0
          /\ cur' = nxt
          /\ nxt' = cur
    /\ pc = "ret" => cur' # cur
    /\ pc \in {"ret", "loop"} => grid' = grid

\* C14: the two buffers stay distinct for the whole run and exchange roles
\* by reference after every timestep: the grid a timestep reads as current
\* is the one the timestep before wrote as next, after that timestep's pass
\* was over; calc_reynolds and write_values get the grid the last timestep
\* wrote, or the grid initialise built when maxIters = 0.
C14_BuffersSwapByReference ==
    /\ []C14_Pointers
    /\ [][C14_SwapStep]_vars

\* the loop has ended after two timesteps and main has handed the grid of
\* the last one, which is not the initial one, to write_values
C14_Witness ==
    /\ pc = "done"
    /\ tt = 2
    /\ outCells = 0
    /\ lastNext = 0
    /\ grid[outCells] # InitialCells

\* the neighbour indices of every row and column are rows and columns
NeighboursValid ==
    /\ \A jj \in Rows : y_s(jj) \in Rows /\ y_n(jj) \in Rows
    /\ \A ii \in Cols : x_e(ii) \in Cols /\ x_w(ii) \in Cols

\* C15: for every nx > 0 and ny > 0, ny = 1 and nx = 1 included, every
\* index at which accelerate_flow and the stream/collide pass read or write
\* obstacles or a buffer of a grid lies in 0 .. nx*ny - 1; the accelerated
\* row ny-2 is a row and x_e, x_w, y_n, y_s are columns and rows.
C15_IndicesInRange ==
    InIteration =>
        /\ NeighboursValid
        /\ pc \in {"stream", "ret"} =>
              /\ AccelRow \in Rows
              /\ AccelIdx \subseteq Cells
        /\ \A a \in rd \cup wr : a[5] \in Cells

\* the same for the parameter files with ny >= 2
C15_IndicesInRangeFromTwoRows ==
    (InIteration /\ params.ny >= 2) =>
        /\ NeighboursValid
        /\ AccelRow \in Rows
        /\ AccelIdx \subseteq Cells
        /\ \A a \in rd \cup wr : a[5] \in Cells

\* with ny = 1 accelerate_flow has read obstacles and written a grid buffer
\* in front of their first elements
C15_Witness ==
    /\ pc = "stream"
    /\ params.ny = 1
    /\ \E a \in wr : a[1] = "accel" /\ a[5] < 0
    /\ \E i \in AccelIdx : i < 0

====
